---- MODULE Spec2Model ----
(***************************************************************************)
(* Model of server.py of getstack-mcp: the two tools get_templates and     *)
(* use_template, the remote repository they talk to, the target directory  *)
(* and the temporary clone directories.  Several use_template invocations  *)
(* may be in progress at once; every network and filesystem step of an     *)
(* invocation is one action and may fail.                                   *)
(***************************************************************************)
EXTENDS Integers, Sequences, FiniteSets, TLC

(* ------------------------------ bounds -------------------------------- *)

\* longest remote root listing that get_templates is given
MaxListing == 2

\* the use_template invocations that may be in progress at once
Invocations == {"u1", "u2"}

\* names tempfile may give a temporary directory
WsNames == {"tmpA", "tmpB"}

NoWs == "none"

(* ----------------------- the remote repository ------------------------ *)

\* server.py:27-30 name the repository; its tree at the time of a clone:
\* two template directories (one with a nested file, both with a main.py),
\* one top-level regular file, one directory holding no regular file (a
\* submodule entry is checked out as an empty directory by a plain depth-1
\* clone), and the name "ghost" that the repository does not hold.
RepoDirs == {"web", "api", "vendor"}

RepoTopFiles == {"README.md"}

\* template_path.rglob("*") filtered by is_file(), in enumeration order:
\* the path relative to the clone root and the file's content
RepoFiles(dir) ==
    IF dir = "web"
    THEN << [rel |-> "main.py", parent |-> ".", content |-> "c_main"],
            [rel |-> "app/routes.py", parent |-> "app", content |-> "c_routes"] >>
    ELSE IF dir = "api"
    THEN << [rel |-> "main.py", parent |-> ".", content |-> "c_api"] >>
    ELSE << >>

\* the remote contents API: which status GET contents/<name> may answer
ApiStatuses(name) ==
    IF name \in RepoDirs \cup RepoTopFiles THEN {200, 403} ELSE {404, 403}

\* f"{response.status_code}"
StatusText(code) ==
    CASE code = 200 -> "200"
      [] code = 403 -> "403"
      [] code = 404 -> "404"
      [] OTHER -> "500"

(* --------------------------- tool arguments --------------------------- *)

TemplateNames == {"", "web", "api", "README.md", "vendor", "ghost"}

Folders == {"", "proj", "/tmp/proj"}

\* Path(current_folder).expanduser().absolute() with the process's working
\* directory /tmp: a relative path is joined to it, an absolute one is kept
AbsolutePath(folder) ==
    IF folder = "proj" THEN "/tmp/proj" ELSE folder

(* ------------------------- the target directory ----------------------- *)

Absent == "absent"

\* relative paths a file may have under /tmp/proj
TargetPaths == {"main.py", "app/routes.py", "notes.txt"}

\* the states /tmp/proj can be in before any invocation
InitialTargets ==
    { [exists |-> FALSE, dirs |-> {},
       files |-> [p \in TargetPaths |-> Absent]],
      [exists |-> TRUE, dirs |-> {},
       files |-> [p \in TargetPaths |-> Absent]],
      [exists |-> TRUE, dirs |-> {},
       files |-> [p \in TargetPaths |->
                    IF p = "app/routes.py" THEN Absent ELSE "c_old"]] }

(* ------------------------------- state -------------------------------- *)

VARIABLES
    target,     \* /tmp/proj: whether it exists, its sub-directories, its files
    wsState,    \* each temporary directory: "absent", "empty" or "cloned"
    pc,         \* where each use_template invocation stands
    tname,      \* its template_name argument
    folder,     \* its current_folder argument
    ws,         \* temp_dir of its with-block, NoWs before line 130
    copied,     \* its copied_files list
    pending,    \* what is leaving its with-block: a return statement's
                \* value, or an exception in flight
    result,     \* what it returned
    status,     \* response.status_code of line 116, 0 before a response
    events,     \* the steps it has taken and the ones that failed
    pre,        \* the target as it was when it was called
    listing,    \* what requests.get of line 43 last produced
    listed      \* what get_templates last returned

vars == << target, wsState, pc, tname, folder, ws, copied, pending, result,
           status, events, pre, listing, listed >>

useVars == << target, wsState, pc, tname, folder, ws, copied, pending,
              result, status, events, pre >>

(* ------------------------------ results ------------------------------- *)

NoResult == [success |-> FALSE, error |-> << >>]

\* {"success": False, "error": ...}
Failure(msg) == [success |-> FALSE, error |-> msg]

\* server.py:170-176
SuccessResult(name, dir, files) ==
    [success |-> TRUE, template_name |-> name, target_folder |-> dir,
     files_copied |-> Len(files), files |-> files]

\* a plausible slip: the handler of line 178 is missing and the exception
\* leaves the tool
ExceptionPropagates(msg) == [pc |-> "raised", result |-> NoResult]

\* str(e) of the exception a failing step raises
ExcText(step) == << "error in ", step >>

\* server.py:178-183: every Exception is turned into a failure result
ExceptHandler(msg) == [pc |-> "done", result |-> Failure(msg)]

\* a return statement reached, or an exception raised, inside the with-block
Return(v) == [kind |-> "return", value |-> v]

Raise(msg) == [kind |-> "raise", value |-> msg]

\* how the invocation ends once the with-block is left with `p`: a return
\* value is returned, an exception reaches the handler of line 178
Leaving(p) ==
    IF p.kind = "raise" THEN ExceptHandler(p.value)
    ELSE [pc |-> "done", result |-> p.value]

\* a plausible slip: the two checks in the other order
ValidateFolderFirst(name, dir) ==
    IF dir = "" THEN << "Target folder is required" >>
    ELSE IF name = "" THEN << "Template name is required" >>
    ELSE << >>

\* server.py:97-107: the error of the first missing argument, << >> if none
Validate(name, dir) ==
    IF name = "" THEN << "Template name is required" >>
    ELSE IF dir = "" THEN << "Target folder is required" >>
    ELSE << >>

\* server.py:121
NotFoundInRepository(name) ==
    << "Template '", name, "' not found in the repository" >>

\* server.py:126
CheckFailed(code) ==
    << "Failed to check template. Status code: ", StatusText(code) >>

\* server.py:148
NotFoundInClone(name) ==
    << "Template '", name, "' not found in the cloned repository" >>

(* ----------------------------- use_template --------------------------- *)

Init ==
    /\ target \in InitialTargets
    /\ wsState = [w \in WsNames |-> "absent"]
    /\ pc = [i \in Invocations |-> "idle"]
    /\ tname = [i \in Invocations |-> ""]
    /\ folder = [i \in Invocations |-> ""]
    /\ ws = [i \in Invocations |-> NoWs]
    /\ copied = [i \in Invocations |-> << >>]
    /\ pending = [i \in Invocations |-> Return(NoResult)]
    /\ result = [i \in Invocations |-> NoResult]
    /\ status = [i \in Invocations |-> 0]
    /\ events = [i \in Invocations |-> {}]
    /\ pre = [i \in Invocations |-> target]
    /\ listing = [kind |-> "none"]
    /\ listed = NoResult

\* the invocation ends at once with what `out` says (a return outside the
\* with-block, or an exception caught at line 178)
Leave(i, out, ev) ==
    /\ pc' = [pc EXCEPT ![i] = out.pc]
    /\ result' = [result EXCEPT ![i] = out.result]
    /\ events' = [events EXCEPT ![i] = @ \cup ev]

\* server.py:84-107: the call and the validation of its arguments
Call(i, name, dir) ==
    /\ pc[i] = "idle"
    /\ tname' = [tname EXCEPT ![i] = name]
    /\ folder' = [folder EXCEPT ![i] = dir]
    /\ pre' = [pre EXCEPT ![i] = target]
    /\ IF Validate(name, dir) # << >>
       THEN Leave(i, [pc |-> "done", result |-> Failure(Validate(name, dir))],
                  {"invalid"})
       ELSE /\ pc' = [pc EXCEPT ![i] = "mkdir"]
            /\ UNCHANGED << result, events >>
    /\ UNCHANGED << target, wsState, ws, copied, pending, status,
                    listing, listed >>

\* server.py:110-113: target_path.mkdir(parents=True, exist_ok=True);
\* creating a missing directory may be refused
MakeTarget(i, ok) ==
    /\ pc[i] = "mkdir"
    /\ ok \/ ~target.exists
    /\ IF ok
       THEN /\ target' = [target EXCEPT !.exists = TRUE]
            /\ pc' = [pc EXCEPT ![i] = "check"]
            /\ events' = [events EXCEPT ![i] = @ \cup {"mkdir"}]
            /\ UNCHANGED result
       ELSE /\ Leave(i, ExceptHandler(ExcText("mkdir")), {"mkdir_failed"})
            /\ UNCHANGED target
    /\ UNCHANGED << wsState, tname, folder, ws, copied, pending, status, pre,
                    listing, listed >>

\* a plausible slip: only "not 200" is told apart, 404 gets the generic error
BranchWithout404(code) ==
    IF code = 0 THEN "raise" ELSE IF code # 200 THEN "failed" ELSE "proceed"

\* server.py:116-123: what follows the existence request; `code` 0 stands
\* for requests.get raising instead of answering
Branch(code) ==
    IF code = 0 THEN "raise"
    ELSE IF code = 404 THEN "not_found"
    ELSE IF code # 200 THEN "failed"
    ELSE "proceed"

\* server.py:116-127: the existence request and the branches on its status
CheckTemplate(i, code) ==
    /\ pc[i] = "check"
    /\ code \in ApiStatuses(tname[i]) \cup {0}
    /\ status' = [status EXCEPT ![i] = code]
    /\ CASE Branch(code) = "raise" ->
              Leave(i, ExceptHandler(ExcText("request")),
                    {"request", "request_failed"})
         [] Branch(code) = "not_found" ->
              Leave(i, [pc |-> "done",
                        result |-> Failure(NotFoundInRepository(tname[i]))],
                    {"request"})
         [] Branch(code) = "failed" ->
              Leave(i, [pc |-> "done", result |-> Failure(CheckFailed(code))],
                    {"request"})
         [] Branch(code) = "proceed" ->
              /\ pc' = [pc EXCEPT ![i] = "acquire"]
              /\ events' = [events EXCEPT ![i] = @ \cup {"request"}]
              /\ UNCHANGED result
    /\ UNCHANGED << target, wsState, tname, folder, ws, copied, pending, pre,
                    listing, listed >>

\* a plausible slip: the name is not checked against existing directories
AnyName(state) == WsNames

\* tempfile.mkdtemp: a name under which no directory exists
FreshNames(state) == { w \in WsNames : state[w] = "absent" }

\* server.py:130: tempfile.TemporaryDirectory() creates the workspace, or
\* raises when the directory cannot be created
Acquire(i, w) ==
    /\ pc[i] = "acquire"
    /\ IF w = NoWs
       THEN /\ Leave(i, ExceptHandler(ExcText("mkdtemp")), {"acquire_failed"})
            /\ UNCHANGED << ws, wsState >>
       ELSE /\ w \in FreshNames(wsState)
            /\ ws' = [ws EXCEPT ![i] = w]
            /\ wsState' = [wsState EXCEPT ![w] = "empty"]
            /\ pc' = [pc EXCEPT ![i] = "clone"]
            /\ events' = [events EXCEPT ![i] = @ \cup {"acquire"}]
            /\ UNCHANGED result
    /\ UNCHANGED << target, tname, folder, copied, pending, status, pre,
                    listing, listed >>

\* server.py:136-140: Repo.clone_from into the workspace; a failed clone
\* raises inside the with-block
Clone(i, ok) ==
    /\ pc[i] = "clone"
    /\ IF ok
       THEN /\ wsState' = [wsState EXCEPT ![ws[i]] = "cloned"]
            /\ pc' = [pc EXCEPT ![i] = "verify"]
            /\ events' = [events EXCEPT ![i] = @ \cup {"clone"}]
            /\ UNCHANGED pending
       ELSE /\ pending' = [pending EXCEPT ![i] = Raise(ExcText("clone"))]
            /\ pc' = [pc EXCEPT ![i] = "exit"]
            /\ events' = [events EXCEPT ![i] = @ \cup {"clone_failed"}]
            /\ UNCHANGED wsState
    /\ UNCHANGED << target, tname, folder, ws, copied, result, status, pre,
                    listing, listed >>

\* a plausible slip: only template_path.exists() is asked
ExistsInClone(state, name) ==
    state = "cloned" /\ name \in RepoDirs \cup RepoTopFiles

\* server.py:143-145: template_path.exists() and template_path.is_dir(),
\* read from the workspace as it is now
IsTemplateDir(state, name) == state = "cloned" /\ name \in RepoDirs

\* server.py:143-149: the second existence check
Verify(i) ==
    /\ pc[i] = "verify"
    /\ IF IsTemplateDir(wsState[ws[i]], tname[i])
       THEN /\ pc' = [pc EXCEPT ![i] = "copy"]
            /\ events' = [events EXCEPT ![i] = @ \cup {"verify"}]
            /\ UNCHANGED pending
       ELSE /\ pending' = [pending EXCEPT
                             ![i] = Return(Failure(NotFoundInClone(tname[i])))]
            /\ pc' = [pc EXCEPT ![i] = "exit"]
            /\ events' = [events EXCEPT ![i] = @ \cup {"verify_failed"}]
    /\ UNCHANGED << target, wsState, tname, folder, ws, copied, result,
                    status, pre, listing, listed >>

\* server.py:153-154: the regular files rglob finds under template_path
TemplateFiles(state, name) ==
    IF state = "cloned" THEN RepoFiles(name) ELSE << >>

\* a plausible slip: the target file is created but nothing is written to it
CopyEmpty(t, f) ==
    [t EXCEPT !.dirs = IF f.parent = "." THEN @ ELSE @ \cup {f.parent},
              !.files = [@ EXCEPT ![f.rel] = ""]]

\* a plausible slip: the target is emptied before the template is copied
CopyOverEmptied(t, f) ==
    [t EXCEPT !.dirs = IF f.parent = "." THEN {} ELSE {f.parent},
              !.files = [p \in TargetPaths |->
                           IF p = f.rel THEN f.content ELSE Absent]]

\* server.py:156-165: the target after one file is copied: the parent
\* directory exists and target_path / relative_path holds the content
CopyInto(t, f) ==
    [t EXCEPT !.dirs = IF f.parent = "." THEN @ ELSE @ \cup {f.parent},
              !.files = [@ EXCEPT ![f.rel] = f.content]]

\* server.py:162: the target after the parent directory was made and
\* shutil.copy2 then failed before writing
ParentMade(t, f) ==
    [t EXCEPT !.dirs = IF f.parent = "." THEN @ ELSE @ \cup {f.parent}]

\* server.py:153-166: one iteration of the copy loop; `how` is "ok",
\* "mkdir" (line 162 raises) or "copy" (line 165 raises)
CopyFile(i, how) ==
    /\ pc[i] = "copy"
    /\ Len(copied[i]) < Len(TemplateFiles(wsState[ws[i]], tname[i]))
    /\ LET f == TemplateFiles(wsState[ws[i]], tname[i])[Len(copied[i]) + 1]
       IN  CASE how = "ok" ->
                  /\ target' = CopyInto(target, f)
                  /\ copied' = [copied EXCEPT ![i] = Append(@, f.rel)]
                  /\ UNCHANGED << pc, pending, events >>
             [] how = "mkdir" ->
                  /\ pending' = [pending EXCEPT
                                   ![i] = Raise(ExcText(f.parent))]
                  /\ pc' = [pc EXCEPT ![i] = "exit"]
                  /\ events' = [events EXCEPT ![i] = @ \cup {"copy_failed"}]
                  /\ UNCHANGED << target, copied >>
             [] how = "copy" ->
                  /\ target' = ParentMade(target, f)
                  /\ pending' = [pending EXCEPT
                                   ![i] = Raise(ExcText(f.rel))]
                  /\ pc' = [pc EXCEPT ![i] = "exit"]
                  /\ events' = [events EXCEPT ![i] = @ \cup {"copy_failed"}]
                  /\ UNCHANGED copied
    /\ UNCHANGED << wsState, tname, folder, ws, result, status, pre,
                    listing, listed >>

\* server.py:168-176: the loop is over, the success result is returned
\* from inside the with-block
Finish(i) ==
    /\ pc[i] = "copy"
    /\ Len(copied[i]) = Len(TemplateFiles(wsState[ws[i]], tname[i]))
    /\ pending' = [pending EXCEPT
                     ![i] = Return(SuccessResult(tname[i],
                                                 AbsolutePath(folder[i]),
                                                 copied[i]))]
    /\ pc' = [pc EXCEPT ![i] = "exit"]
    /\ events' = [events EXCEPT ![i] = @ \cup {"copied"}]
    /\ UNCHANGED << target, wsState, tname, folder, ws, copied, result,
                    status, pre, listing, listed >>

\* a plausible slip: the workspace is made with mkdtemp and never removed
ReleasedNothing(state, w) == state

\* TemporaryDirectory.cleanup: the workspace is removed recursively
Released(state, w) == [state EXCEPT ![w] = "absent"]

\* server.py:130 and 178-183: leaving the with-block runs the cleanup of
\* the workspace; when it succeeds the pending return value or exception
\* takes effect, when the removal raises (the directory stays) that
\* exception replaces it and is caught at line 178
Exit(i, ok) ==
    /\ pc[i] = "exit"
    /\ IF ok
       THEN /\ wsState' = Released(wsState, ws[i])
            /\ Leave(i, Leaving(pending[i]), {"released"})
       ELSE /\ Leave(i, ExceptHandler(ExcText("cleanup")), {"cleanup_failed"})
            /\ UNCHANGED wsState
    /\ UNCHANGED << target, tname, folder, ws, copied, pending, status, pre,
                    listing, listed >>

(* ----------------------------- get_templates -------------------------- *)

\* the entries GET contents/ may list (name, path, type, html_url)
Entries ==
    { [name |-> "web", path |-> "web", type |-> "dir",
       html_url |-> "https://github.com/tree/web"],
      [name |-> "README.md", path |-> "README.md", type |-> "file",
       html_url |-> "https://github.com/blob/README.md"],
      [name |-> "vendor", path |-> "vendor", type |-> "submodule",
       html_url |-> "https://github.com/tree/vendor"],
      [name |-> "api", path |-> "api", type |-> "dir",
       html_url |-> "https://github.com/tree/api"] }

Listings == UNION { [1..n -> Entries] : n \in 0..MaxListing }

\* what line 43 may produce: an answer with a status and a body, or an
\* exception (a requests.RequestException, or any other)
Responses ==
    { [kind |-> "answer", code |-> 200, body |-> l] : l \in Listings }
    \cup { [kind |-> "answer", code |-> c, body |-> << >>] : c \in {403, 404} }
    \cup { [kind |-> k, code |-> 0, body |-> << >>] :
              k \in {"request_exception", "exception"} }

\* a plausible slip: everything that is not a file is taken for a template
IsNotFile(item) == item.type # "file"

\* server.py:56: the entries that are kept
IsTemplate(item) == item.type = "dir"

\* server.py:57-61
Descriptor(item) ==
    [name |-> item.name, path |-> item.path, url |-> item.html_url]

\* server.py:54-61: the loop over the listing
RECURSIVE Templates(_)
Templates(contents) ==
    IF contents = << >> THEN << >>
    ELSE LET item == Head(contents)
         IN  IF IsTemplate(item)
             THEN << Descriptor(item) >> \o Templates(Tail(contents))
             ELSE Templates(Tail(contents))

\* server.py:74 and 79
NetworkError(msg) == << "Network error: " >> \o msg

\* server.py:48
ListFailed(code) ==
    << "Failed to fetch repository contents. Status code: ", StatusText(code) >>

\* server.py:41-80: what get_templates returns for what line 43 produced
ListResult(r) ==
    CASE r.kind = "request_exception" ->
            Failure(NetworkError(ExcText("request")))
      [] r.kind = "exception" -> Failure(ExcText("get_templates"))
      [] r.kind = "answer" /\ r.code # 200 -> Failure(ListFailed(r.code))
      [] OTHER -> [success |-> TRUE, templates |-> Templates(r.body),
                   count |-> Len(Templates(r.body))]

\* server.py:34-80: one call of get_templates
GetTemplates(r) ==
    /\ listing' = r
    /\ listed' = ListResult(r)
    /\ UNCHANGED useVars

(* --------------------------- specification ---------------------------- *)

\* no use_template invocation is under way
Quiet == \A i \in Invocations : pc[i] \in {"idle", "done"}

\* the steps of an invocation that is under way
Step(i) ==
    \/ \E ok \in BOOLEAN : MakeTarget(i, ok)
    \/ \E code \in {0, 200, 403, 404} : CheckTemplate(i, code)
    \/ \E w \in WsNames \cup {NoWs} : Acquire(i, w)
    \/ \E ok \in BOOLEAN : Clone(i, ok)
    \/ Verify(i)
    \/ \E how \in {"ok", "mkdir", "copy"} : CopyFile(i, how)
    \/ Finish(i)
    \/ \E ok \in BOOLEAN : Exit(i, ok)

\* use_template invocations on concurrent workers (spec section 5)
Next ==
    \/ \E i \in Invocations, name \in TemplateNames, dir \in Folders :
          Call(i, name, dir)
    \/ \E i \in Invocations : Step(i)

Spec == Init /\ [][Next]_vars

\* no use_template invocation has been made yet
Fresh == \A i \in Invocations : pc[i] = "idle"

\* both tools behind a host that runs one tool call at a time: calls of
\* get_templates before and after one use_template invocation
NextTools ==
    \/ \E i \in Invocations, name \in TemplateNames, dir \in Folders :
          Fresh /\ Call(i, name, dir)
    \/ \E i \in Invocations : Step(i)
    \/ \E r \in Responses : Quiet /\ GetTemplates(r)

SpecTools == Init /\ [][NextTools]_vars

\* use_template invocations one after the other
NextSeq ==
    \/ \E i \in Invocations, name \in TemplateNames, dir \in Folders :
          Quiet /\ Call(i, name, dir)
    \/ \E i \in Invocations : Step(i)

SpecSeq == Init /\ [][NextSeq]_vars

(* ------------------------------ properties ---------------------------- *)

\* the events that record a failed network or filesystem step
FailEvents ==
    { "mkdir_failed", "request_failed", "acquire_failed", "clone_failed",
      "copy_failed", "cleanup_failed" }

\* the invocation holds a workspace: it is inside the with-block
Live(i) == pc[i] \in {"clone", "verify", "copy", "exit"}

Range(seq) == { seq[k] : k \in 1..Len(seq) }

Others(i) == Invocations \ {i}

C2_FailureLeavesNoNewFile ==
    \A i \in Invocations :
        (pc[i] = "done" /\ ~result[i].success)
            => \A p \in Range(copied[i]) : pre[i].files[p] # Absent

\* C3: a file is written under the target only by an invocation whose
\* clone succeeded and whose template is a directory of the clone; an
\* invocation whose clone failed, or whose template is no directory of the
\* clone, returns success:false and has written no file.
C3_CopyOnlyAfterVerifiedClone ==
    \A i \in Invocations :
        /\ copied[i] # << >>
              => /\ "clone" \in events[i]
                 /\ "clone_failed" \notin events[i]
                 /\ tname[i] \in RepoDirs
        /\ (pc[i] = "done" /\ "acquire" \in events[i]
              /\ ("clone" \notin events[i] \/ tname[i] \notin RepoDirs))
              => /\ ~result[i].success
                 /\ copied[i] = << >>

\* C3 witness: an invocation whose second existence check failed has
\* returned, and one whose clone failed has returned.
C3_Witness ==
    \E i \in Invocations, j \in Invocations :
        /\ pc[i] = "done" /\ "verify_failed" \in events[i]
        /\ pc[j] = "done" /\ "clone_failed" \in events[j]

\* C4: an invocation with a non-empty template name that was answered 404
\* returns the "not found in the repository" error, has acquired no
\* workspace and cloned nothing, and has created nothing under the target
\* other than the target directory itself.
C4_NotFoundTouchesNothing ==
    \A i \in Invocations :
        (pc[i] = "done" /\ status[i] = 404)
            => /\ tname[i] # ""
               /\ result[i] = [success |-> FALSE,
                               error |-> << "Template '", tname[i],
                                            "' not found in the repository" >>]
               /\ ws[i] = NoWs
               /\ events[i] = {"mkdir", "request"}
               /\ copied[i] = << >>
               /\ (\A j \in Others(i) : pc[j] = "idle")
                     => /\ wsState = [w \in WsNames |-> "absent"]
                        /\ target = [pre[i] EXCEPT !.exists = TRUE]

\* C4 witness: a 404 invocation has returned and the target directory,
\* missing before, now exists and is empty.
C4_Witness ==
    \E i \in Invocations :
        /\ pc[i] = "done" /\ status[i] = 404
        /\ ~pre[i].exists /\ target.exists
        /\ \A p \in TargetPaths : target.files[p] = Absent

\* C5: an invocation with an empty template name returns "Template name
\* is required", one with a template name and an empty folder returns
\* "Target folder is required"; in both cases no request was issued, no
\* directory was created and no workspace was acquired.
C5_ValidationFirst ==
    \A i \in Invocations :
        (pc[i] # "idle" /\ (tname[i] = "" \/ folder[i] = ""))
            => /\ pc[i] = "done"
               /\ result[i] =
                    [success |-> FALSE,
                     error |-> IF tname[i] = ""
                               THEN << "Template name is required" >>
                               ELSE << "Target folder is required" >>]
               /\ status[i] = 0
               /\ events[i] = {"invalid"}
               /\ ws[i] = NoWs
               /\ (\A j \in Others(i) : pc[j] = "idle")
                     => /\ target = pre[i]
                        /\ wsState = [w \in WsNames |-> "absent"]

\* C5 witness: both validation errors have been returned, the first one
\* for a call with both arguments empty.
C5_Witness ==
    \E i \in Invocations, j \in Invocations :
        /\ pc[i] = "done" /\ tname[i] = "" /\ folder[i] = ""
        /\ pc[j] = "done" /\ tname[j] # "" /\ folder[j] = ""

\* {success: false, error: <message>} with a message
IsFailureResult(r) ==
    /\ DOMAIN r = {"success", "error"}
    /\ r.success = FALSE
    /\ r.error # << >>

\* C6: no invocation of either tool ever leaves by a raised error: an
\* invocation of use_template under way can always take its next step,
\* one that returned gave a success result or {success: false, error},
\* the latter whenever one of its steps failed; get_templates returned a
\* success result or {success: false, error}.
C6_AlwaysStructuredResult ==
    /\ \A i \in Invocations :
          /\ pc[i] \in {"idle", "mkdir", "check", "acquire", "clone", "verify",
                        "copy", "exit", "done"}
          /\ pc[i] \notin {"idle", "done"} => ENABLED Step(i)
          /\ pc[i] = "done"
                => /\ \/ IsFailureResult(result[i])
                      \/ /\ DOMAIN result[i] =
                              {"success", "template_name", "target_folder",
                               "files_copied", "files"}
                         /\ result[i].success = TRUE
                   /\ events[i] \cap FailEvents # {}
                         => IsFailureResult(result[i])
    /\ listing.kind # "none"
          => \/ IsFailureResult(listed)
             \/ /\ DOMAIN listed = {"success", "templates", "count"}
                /\ listed.success = TRUE
    /\ listing.kind \in {"request_exception", "exception"}
          => IsFailureResult(listed)

\* C6 witness: get_templates met an exception and returned a failure, and
\* a use_template invocation whose files were all copied returned a
\* failure because the removal of its workspace failed.
C6_Witness ==
    /\ listing.kind = "exception" /\ IsFailureResult(listed)
    /\ \E i \in Invocations :
          /\ pc[i] = "done"
          /\ {"copied", "cleanup_failed"} \subseteq events[i]
          /\ IsFailureResult(result[i])

\* the invocation returned, the existence check had answered 200 and no
\* network or filesystem step of it failed
CleanRun(i) ==
    /\ pc[i] = "done"
    /\ status[i] = 200
    /\ events[i] \cap FailEvents = {}

\* the result and the target that C7 promises for template files `fs`
Materialized(i, fs) ==
    /\ result[i].success
    /\ result[i].files # << >>
    /\ result[i].files_copied = Len(result[i].files)
    /\ result[i].files = [k \in 1..Len(fs) |-> fs[k].rel]
    /\ \A k \in 1..Len(fs) : target.files[fs[k].rel] = fs[k].content

\* invocation i returns in this step
Returns(i) == pc[i] # "done" /\ pc'[i] = "done"

\* C7 as stated: for every template name the existence check reports
\* present, a run without a failing step returns success:true with a
\* non-empty files list, files_copied its length, files the relative paths
\* of the template's regular files, each present under the target with the
\* source's content.
C7_EveryPresentNameMaterializes ==
    [][\A i \in Invocations :
          (Returns(i) /\ CleanRun(i)')
              => Materialized(i, RepoFiles(tname[i]))']_vars

\* C7 amended: the same, when use_template returns, for every template
\* name the existence check reports present that is, in the clone, a
\* directory holding at least one regular file, no other invocation
\* running meanwhile.
C7_PresentDirectoryMaterializes ==
    [][\A i \in Invocations :
          (Returns(i) /\ CleanRun(i)'
             /\ tname[i] \in RepoDirs /\ RepoFiles(tname[i]) # << >>)
              => /\ Materialized(i, RepoFiles(tname[i]))'
                 /\ result'[i].template_name = tname[i]
                 /\ result'[i].target_folder = "/tmp/proj"]_vars

\* C7 witness: a clean run of template "web" given the relative folder
\* has returned, over a target where an earlier run of template "api" had
\* left its main.py.
C7_Witness ==
    \E i \in Invocations :
        /\ CleanRun(i) /\ tname[i] = "web" /\ folder[i] = "proj"
        /\ pre[i].files["main.py"] = "c_api"
        /\ result[i].files_copied = 2
        /\ target.files["main.py"] = "c_main"

\* the entries of a listing whose type is "dir", in listing order
DirEntries(body) == SelectSeq(body, LAMBDA e : e.type = "dir")

\* C8: when the root listing answers 200, get_templates returns
\* success:true, one descriptor {name, path, url} per entry of type "dir"
\* in listing order and none for any other entry, and their number as
\* count.
C8_ListsExactlyDirectories ==
    (listing.kind = "answer" /\ listing.code = 200)
        => /\ listed.success = TRUE
           /\ Len(listed.templates) = Len(DirEntries(listing.body))
           /\ \A k \in 1..Len(listed.templates) :
                 listed.templates[k] =
                     [name |-> DirEntries(listing.body)[k].name,
                      path |-> DirEntries(listing.body)[k].path,
                      url |-> DirEntries(listing.body)[k].html_url]
           /\ listed.count = Len(DirEntries(listing.body))

\* C8 witness: a listing of a file entry followed by a directory entry was
\* answered with 200 and get_templates returned one template.
C8_Witness ==
    /\ listing.kind = "answer" /\ listing.code = 200
    /\ Len(listing.body) = 2
    /\ listing.body[1].type = "file" /\ listing.body[2].type = "dir"
    /\ listed.count = 1

\* C9: two invocations inside their with-blocks never hold the same
\* workspace, and the workspace of an invocation inside its with-block
\* exists, and holds the clone once the clone succeeded, whatever the
\* other invocations acquire or release meanwhile.
C9_WorkspacesIsolated ==
    \A i \in Invocations :
        Live(i)
            => /\ ws[i] \in WsNames
               /\ \A j \in Others(i) : Live(j) => ws[j] # ws[i]
               /\ wsState[ws[i]] # "absent"
               /\ pc[i] \in {"verify", "copy"} => wsState[ws[i]] = "cloned"

\* C9 witness: one invocation is copying from its workspace while another,
\* which held a different workspace, has released it and returned.
C9_Witness ==
    \E i \in Invocations, j \in Invocations :
        /\ i # j
        /\ pc[i] = "copy" /\ copied[i] # << >>
        /\ pc[j] = "done" /\ "released" \in events[j]
        /\ ws[j] # ws[i]
        /\ wsState[ws[j]] = "absent"

\* C10: every change of a file under the target is made by an invocation
\* in its copy loop, at the relative path of a regular file of that
\* invocation's template, and leaves there that file's content; no file
\* is ever removed.
C10_OnlyTemplatePathsOverwritten ==
    [][\A p \in TargetPaths :
          target'.files[p] # target.files[p]
              => \E i \in Invocations :
                    /\ pc[i] = "copy"
                    /\ \E k \in 1..Len(RepoFiles(tname[i])) :
                          /\ RepoFiles(tname[i])[k].rel = p
                          /\ target'.files[p] = RepoFiles(tname[i])[k].content
                          /\ copied'[i] = Append(copied[i], p)]_vars

\* C10 witness: template "api" was copied over a target holding main.py
\* and notes.txt: main.py now has the template's content, notes.txt its
\* old one.
C10_Witness ==
    \E i \in Invocations :
        /\ pc[i] = "done" /\ result[i].success /\ tname[i] = "api"
        /\ pre[i].files["main.py"] = "c_old"
        /\ target.files["main.py"] = "c_api"
        /\ target.files["notes.txt"] = "c_old"

====
